---------------------------- MODULE Spec2Model ----------------------------
(***************************************************************************)
(* A model of the render/merge engine of plainmerge (src/src/render.ts,    *)
(* the second, current revision of the module, lines 301-640).             *)
(*                                                                         *)
(* JavaScript strings are sequences of one-character strings; cell values  *)
(* are tagged records (string, boolean, undefined) so that coercions       *)
(* (String(v), `${v}`, toLowerCase) are computed, not assumed.             *)
(***************************************************************************)
EXTENDS Integers, Sequences, FiniteSets, TLC

VARIABLES
    \* ---- arguments of renderPdf and the files it reads (fixed per run)
    output,        \* output path, a string
    pdfFile,       \* the template on disk: [readable, numPages, fields, size]
    pageIndex,     \* index of the target page
    excelFile,     \* the workbook on disk: [readable, hasRef, ref, cells]
    rowsLimit,     \* cap on the number of data rows
    combinePdf,    \* TRUE: one combined file, FALSE: one file per row
    canvasData,    \* [present, objects]: the overlay description
    canvasWidth,   \* authoring canvas width (0 stands for 0 / undefined)
    formData,      \* [present, keys, idx]: field name -> column index
    \* ---- locals of renderPdf
    pc,            \* position in renderPdf
    i,             \* loop counter (0-based row number)
    rows,          \* result of readFirstSheet
    pdfDoc,        \* the working document
    newDoc,        \* the output accumulator: a sequence of pages
    cachedFonts,   \* font name -> font handle (a partial function)
    loads,         \* number of PDFDocument.load(pdfBuff) calls so far
    \* ---- effects of renderPdf
    files,         \* the disk: output name -> sequence of pages
    writes,        \* the writeFile calls so far, in order (names)
    result,        \* returned count (-1: nothing returned)
    \* ---- a direct call of one of the module's synchronous functions
    call,          \* [fn, ...arguments]
    ret,           \* what the call returned
    done           \* whether the call has returned

argVars  == <<output, pdfFile, pageIndex, excelFile, rowsLimit, combinePdf,
              canvasData, canvasWidth, formData>>
runVars  == <<pc, i, rows, pdfDoc, newDoc, cachedFonts, loads, files, writes,
              result>>
callVars == <<call, ret, done>>
vars     == <<argVars, runVars, callVars>>

----------------------------------------------------------------------------
(* Bounds of the model *)

\* largest rowsLimit tried
MaxRowsLimit == 2
\* largest number of entries of a field mapping passed to renderForm
MaxKeys == 2
\* largest row index and column index of a sheet's declared range
MaxSheetRow == 3
MaxSheetCol == 1
\* largest number of cells of the declared range missing from the cell map
MaxHoles == 2

----------------------------------------------------------------------------
(* JavaScript values and strings *)

S_empty     == << >>
S_true      == <<"t", "r", "u", "e">>
S_TRUE      == <<"T", "R", "U", "E">>
S_True      == <<"T", "r", "u", "e">>
S_false     == <<"f", "a", "l", "s", "e">>
S_no        == <<"n", "o">>
S_undefined == <<"u", "n", "d", "e", "f", "i", "n", "e", "d">>
S_null      == <<"n", "u", "l", "l">>
S_red       == <<"r", "e", "d">>
S_blue      == <<"b", "l", "u", "e">>
S_Alice     == <<"A", "l", "i", "c", "e">>
S_Bob       == <<"B", "o", "b">>

Str(s)    == [t |-> "string", s |-> s, b |-> FALSE]
Bool(b)   == [t |-> "boolean", s |-> S_empty, b |-> b]
Undefined == [t |-> "undefined", s |-> S_empty, b |-> FALSE]
Null      == [t |-> "null", s |-> S_empty, b |-> FALSE]

\* String(v) and `${v}`
JsString(v) ==
    CASE v.t = "string"    -> v.s
      [] v.t = "boolean"   -> IF v.b THEN S_true ELSE S_false
      [] v.t = "undefined" -> S_undefined
      [] v.t = "null"      -> S_null

UpperLetters == <<"A","B","C","D","E","F","G","H","I","J","K","L","M",
                  "N","O","P","Q","R","S","T","U","V","W","X","Y","Z">>
LowerLetters == <<"a","b","c","d","e","f","g","h","i","j","k","l","m",
                  "n","o","p","q","r","s","t","u","v","w","x","y","z">>

ToLowerChar(c) ==
    IF \E k \in 1..Len(UpperLetters) : UpperLetters[k] = c
    THEN LowerLetters[CHOOSE k \in 1..Len(UpperLetters) : UpperLetters[k] = c]
    ELSE c

\* String.prototype.toLowerCase
ToLowerCase(s) == [k \in 1..Len(s) |-> ToLowerChar(s[k])]

Digits == <<"0", "1", "2", "3", "4", "5", "6", "7", "8", "9">>

\* row[index] on a RowMap: a missing key reads as undefined
RowGet(row, index) == IF index \in DOMAIN row THEN row[index] ELSE Undefined


----------------------------------------------------------------------------
(* renderForm: the Form Field Populator *)

\* A form field: its pdf-lib class (kind), its state (text, checked,
\* selected) and its declared options.
Field(kind, text, checked, selected, options) ==
    [kind |-> kind, text |-> text, checked |-> checked,
     selected |-> selected, options |-> options]

SupportedField == {"TextField", "CheckBox", "RadioGroup", "OptionList",
                   "Dropdown"}

\* getFieldType(fieldMap[key]): '' for a missing field (undefined is an
\* instance of no class) and for a field of any other class
GetFieldType(fields, key) ==
    IF key \in DOMAIN fields /\ fields[key].kind \in SupportedField
    THEN fields[key].kind
    ELSE ""

\* index === -1 || value === undefined || value === null
SkippedOnlyUnmapped(index, value) == index = -1
Skipped(index, value) ==
    index = -1 \/ value.t = "undefined" \/ value.t = "null"

\* value && value.toLowerCase() === 'true'
CheckBoxWantedCaseSensitive(value) == value # S_empty /\ value = S_true
CheckBoxWanted(value) == value # S_empty /\ ToLowerCase(value) = S_true

\* getOptions().includes(value)
IncludesAlways(options, value) == TRUE
Includes(options, value) == value \in options

\* The switch on the field type, applied to the string value.
\* st = [fields, threw]: the form's fields and whether an exception escaped.
DispatchFieldByConstructorName(st, key, value) ==
    IF key \notin DOMAIN st.fields
    THEN [st EXCEPT !.threw = TRUE]
    ELSE LET kind == st.fields[key].kind IN
         CASE kind = "TextField" ->
                [st EXCEPT !.fields[key].text = value]
           [] kind = "CheckBox" ->
                [st EXCEPT !.fields[key].checked = CheckBoxWanted(value)]
           [] kind \in {"RadioGroup", "OptionList", "Dropdown"} ->
                IF Includes(st.fields[key].options, value)
                THEN [st EXCEPT !.fields[key].selected = {value}]
                ELSE st
           [] OTHER -> st
DispatchField(st, key, value) ==
    LET kind == GetFieldType(st.fields, key) IN
    CASE kind = "TextField" ->
           [st EXCEPT !.fields[key].text = value]
      [] kind = "CheckBox" ->
           IF CheckBoxWanted(value)
           THEN [st EXCEPT !.fields[key].checked = TRUE]
           ELSE [st EXCEPT !.fields[key].checked = FALSE]
      [] kind = "RadioGroup" ->
           IF Includes(st.fields[key].options, value)
           THEN [st EXCEPT !.fields[key].selected = {value}]
           ELSE st
      [] kind = "OptionList" ->
           IF Includes(st.fields[key].options, value)
           THEN [st EXCEPT !.fields[key].selected = {value}]
           ELSE st
      [] kind = "Dropdown" ->
           IF Includes(st.fields[key].options, value)
           THEN [st EXCEPT !.fields[key].selected = {value}]
           ELSE st
      [] OTHER -> st

\* The body of the forEach callback for one key of formData
PopulateField(st, key, row, idx) ==
    LET index == idx[key]
        value == RowGet(row, index)
    IN  IF st.threw \/ Skipped(index, value)
        THEN st
        ELSE DispatchField(st, key, JsString(value))

\* Object.keys(formData).forEach(...), in key order
RECURSIVE ForEachKey(_, _, _, _)
ForEachKey(st, keys, row, idx) ==
    IF keys = << >>
    THEN st
    ELSE ForEachKey(PopulateField(st, Head(keys), row, idx), Tail(keys),
                    row, idx)

\* renderForm(row, formData, pdfForm); fd = [present, keys, idx],
\* form = [present, fields]
RenderForm(row, fd, form) ==
    IF ~form.present \/ ~fd.present
    THEN [fields |-> form.fields, threw |-> FALSE]
    ELSE ForEachKey([fields |-> form.fields, threw |-> FALSE], fd.keys,
                    row, fd.idx)


----------------------------------------------------------------------------
(* Direct calls of renderForm, over bounded inputs *)

\* While a single function is called directly, renderPdf is not running.
NoRun ==
    /\ output = << >> /\ pageIndex = 0 /\ rowsLimit = 0 /\ combinePdf = TRUE
    /\ pdfFile = [readable |-> FALSE] /\ excelFile = [readable |-> FALSE]
    /\ canvasData = [present |-> FALSE] /\ canvasWidth = 0
    /\ formData = [present |-> FALSE]
    /\ pc = "idle" /\ i = 0 /\ rows = << >> /\ pdfDoc = [id |-> 0]
    /\ newDoc = << >> /\ cachedFonts = << >> /\ loads = 0
    /\ files = << >> /\ writes = << >> /\ result = -1

ColorOptions == {S_red, S_blue}

\* Two states of one template form: untouched, and with earlier values.
FormBlank ==
    [Name  |-> Field("TextField", S_empty, FALSE, {}, {}),
     Agree |-> Field("CheckBox", S_empty, FALSE, {}, {}),
     Color |-> Field("Dropdown", S_empty, FALSE, {}, ColorOptions),
     Size  |-> Field("RadioGroup", S_empty, FALSE, {}, ColorOptions),
     Tags  |-> Field("OptionList", S_empty, FALSE, {}, ColorOptions),
     Sign  |-> Field("Signature", S_empty, FALSE, {}, {})]
FormFilled ==
    [Name  |-> Field("TextField", S_Bob, FALSE, {}, {}),
     Agree |-> Field("CheckBox", S_empty, TRUE, {}, {}),
     Color |-> Field("Dropdown", S_empty, FALSE, {S_red}, ColorOptions),
     Size  |-> Field("RadioGroup", S_empty, FALSE, {S_red}, ColorOptions),
     Tags  |-> Field("OptionList", S_empty, FALSE, {S_red}, ColorOptions),
     Sign  |-> Field("Signature", S_empty, FALSE, {}, {})]

\* Field names a mapping may use, in the order a mapping lists them;
\* "Ghost" is in no template.
NameOrder == <<"Ghost", "Sign", "Name", "Agree", "Color", "Size", "Tags">>

RECURSIVE KeysOf(_)
KeysOf(S) ==
    IF S = {} THEN << >>
    ELSE LET m == CHOOSE x \in S : \A y \in S : x <= y
         IN  <<NameOrder[m]>> \o KeysOf(S \ {m})

FormCellValues ==
    {Str(S_empty), Str(S_true), Str(S_TRUE), Str(S_True), Str(S_false),
     Str(S_no), Str(S_red), Bool(TRUE), Null}
FormRows ==
    {[c \in 0..1 |-> IF c = 0 THEN v ELSE w] :
        v \in FormCellValues, w \in {Str(S_blue), Str(S_Alice)}}

\* column indexes of a mapping: unmapped, the two columns, out of range
FormColumns == {-1, 0, 1, 2}

AbsentFormData == [present |-> FALSE, keys |-> << >>, idx |-> << >>]
FormMaps ==
    {AbsentFormData} \cup
    UNION {{[present |-> TRUE, keys |-> KeysOf(S), idx |-> f] :
               f \in [{NameOrder[k] : k \in S} -> FormColumns]} :
           S \in {T \in SUBSET (1..Len(NameOrder)) :
                    Cardinality(T) >= 1 /\ Cardinality(T) <= MaxKeys}}
PdfForms ==
    {[present |-> p, fields |-> f] :
        p \in BOOLEAN, f \in {FormBlank, FormFilled}}

FormInit ==
    /\ NoRun
    /\ \E r \in FormRows, fd \in FormMaps, f \in PdfForms :
          call = [fn |-> "renderForm", row |-> r, formData |-> fd,
                  pdfForm |-> f]
    /\ ret = [fields |-> call.pdfForm.fields, threw |-> FALSE]
    /\ done = FALSE

CallRenderForm ==
    /\ ~done
    /\ call.fn = "renderForm"
    /\ ret' = RenderForm(call.row, call.formData, call.pdfForm)
    /\ done' = TRUE
    /\ UNCHANGED <<call, argVars, runVars>>

FormNext == CallRenderForm

FormSpec == FormInit /\ [][FormNext]_vars



----------------------------------------------------------------------------
(* sheetToArray and readFirstSheet: the Tabular Row Reader *)

\* const headerOffset = 1
HeaderOffset == 1

Min(a, b) == IF a <= b THEN a ELSE b

\* sheetRows = rowsLimit + headerOffset
SheetRowsUncapped(limit) == MaxSheetRow + MaxRowsLimit + 2
SheetRows(limit) == limit + HeaderOffset

\* XLSX.readFile(path, { sheetRows }): the first sheet with only its first
\* sheetRows physical rows: '!ref' is clipped to them and later cells are
\* not loaded. wb = [readable, hasRef, ref, cells].
XlsxReadFile(wb, sheetRows) ==
    IF ~wb.hasRef \/ sheetRows > wb.ref.er
    THEN [hasRef |-> wb.hasRef, ref |-> wb.ref, cells |-> wb.cells]
    ELSE LET er == sheetRows - 1
             sr == IF er < wb.ref.sr THEN er ELSE wb.ref.sr
         IN  [hasRef |-> TRUE,
              ref    |-> [wb.ref EXCEPT !.er = er, !.sr = sr],
              cells  |-> [rc \in {x \in DOMAIN wb.cells : x[1] < sheetRows}
                             |-> wb.cells[rc]]]

\* the inner if of sheetToArray: an absent cell is pushed as ''
CellOrEmpty(sheet, rowNum, colNum) ==
    IF <<rowNum, colNum>> \in DOMAIN sheet.cells
    THEN sheet.cells[<<rowNum, colNum>>]
    ELSE Str(S_empty)

\* sheetToArray(sheet): an array of arrays (1-based sequences here), one
\* per row of '!ref', one entry per column of '!ref'
SheetToArray(sheet) ==
    IF ~sheet.hasRef
    THEN << >>
    ELSE [k \in 1..(sheet.ref.er - sheet.ref.sr + 1) |->
            [j \in 1..(sheet.ref.ec - sheet.ref.sc + 1) |->
                CellOrEmpty(sheet, sheet.ref.sr + k - 1,
                            sheet.ref.sc + j - 1)]]

\* Array.prototype.slice(start)
Slice(arr, start) == SubSeq(arr, start + 1, Len(arr))

\* arr.forEach((r, i) => { row[i] = r }): a RowMap keyed from 0
ToRowMap(arr) == [c \in 0..(Len(arr) - 1) |-> arr[c + 1]]

\* readFirstSheet(path, rowsLimit)
ReadFirstSheet(wb, limit) ==
    LET firstSheet == XlsxReadFile(wb, SheetRows(limit))
        arrs       == Slice(SheetToArray(firstSheet), HeaderOffset)
    IN  [k \in 1..Len(arrs) |-> ToRowMap(arrs[k])]

----------------------------------------------------------------------------
(* Direct calls of readFirstSheet, over bounded workbooks *)

\* the value stored in the cell at (r, c): its own coordinates
CellText(r, c) == Str(<<Digits[r + 1], Digits[c + 1]>>)

Ranges ==
    {[sr |-> sr, sc |-> sc, er |-> er, ec |-> ec] :
        sr \in 0..1, sc \in 0..1, er \in 0..MaxSheetRow, ec \in 0..MaxSheetCol}

RangeCells(ref) == (ref.sr..ref.er) \X (ref.sc..ref.ec)

\* a workbook whose first sheet declares the range ref and holds every
\* cell of it except the ones in holes
Workbook(ref, holes) ==
    [readable |-> TRUE, hasRef |-> TRUE, ref |-> ref,
     cells |-> [rc \in RangeCells(ref) \ holes |-> CellText(rc[1], rc[2])]]

\* a workbook whose first sheet is empty (no '!ref')
EmptyWorkbook ==
    [readable |-> TRUE, hasRef |-> FALSE,
     ref |-> [sr |-> 0, sc |-> 0, er |-> 0, ec |-> 0], cells |-> << >>]

Workbooks ==
    {EmptyWorkbook} \cup
    UNION {{Workbook(ref, holes) :
               holes \in {H \in SUBSET RangeCells(ref) :
                            Cardinality(H) <= MaxHoles}} :
           ref \in {r \in Ranges : r.sr <= r.er /\ r.sc <= r.ec}}

SheetInit ==
    /\ NoRun
    /\ \E wb \in Workbooks, limit \in 0..MaxRowsLimit :
          call = [fn |-> "readFirstSheet", wb |-> wb, rowsLimit |-> limit]
    /\ ret = << >>
    /\ done = FALSE

CallReadFirstSheet ==
    /\ ~done
    /\ call.fn = "readFirstSheet"
    /\ ret' = ReadFirstSheet(call.wb, call.rowsLimit)
    /\ done' = TRUE
    /\ UNCHANGED <<call, argVars, runVars>>

SheetNext == CallReadFirstSheet

SheetSpec == SheetInit /\ [][SheetNext]_vars


----------------------------------------------------------------------------
(* getFont and renderPage: the Font Cache and the overlay drawing step *)

\* StandardFonts.Helvetica
Helvetica == "Helvetica"

\* getFont(font, pdfDoc, cachedFonts): on a miss the font is embedded into
\* pdfDoc and the handle, owned by that document instance, is cached.
\* Returns the handle, the cache and the document.
GetFont(font, doc, cache) ==
    LET key == IF font = "" THEN Helvetica ELSE font IN
    IF key \in DOMAIN cache
    THEN [font |-> cache[key], cache |-> cache, doc |-> doc]
    ELSE LET h == [name |-> key, doc |-> doc.id] IN
         [font  |-> h,
          cache |-> (key :> h) @@ cache,
          doc   |-> [doc EXCEPT !.fonts = @ \cup {key}]]

\* const text = String(row[o.index]); layoutMultilineText(text || '', ...)
LayoutText(row, index) ==
    LET text == JsString(RowGet(row, index)) IN
    IF text = S_empty THEN S_empty ELSE text

----------------------------------------------------------------------------
(* renderPage: the Coordinate & Font Metrics Translator.  JavaScript       *)
(* numbers are modelled as exact rationals [n, d] in lowest terms.         *)

RECURSIVE Gcd(_, _)
Gcd(a, b) == IF b = 0 THEN a ELSE Gcd(b, a % b)

Abs(a) == IF a < 0 THEN -a ELSE a

\* the rational n / d in lowest terms, with a positive denominator; as for
\* a JS number, d = 0 gives Infinity (1/0), -Infinity (-1/0) or NaN (0/0)
Rat(n, d) ==
    LET g == IF n = 0 /\ d = 0 THEN 1 ELSE Gcd(Abs(n), Abs(d))
        sgn == IF d < 0 THEN -1 ELSE 1
    IN  [n |-> sgn * (n \div g), d |-> sgn * (d \div g)]

RInt(a)    == Rat(a, 1)
RMul(p, q) == Rat(p.n * q.n, p.d * q.d)
RAdd(p, q) == Rat(p.n * q.d + q.n * p.d, p.d * q.d)
RSub(p, q) == Rat(p.n * q.d - q.n * p.d, p.d * q.d)

\* o.fontSize || 16, o.width || 100 and o.height || 100, the + 1 of x
DefaultFontSize == 16
DefaultBoxSize == 100
NudgeX == 1

\* a || b on numbers: 0 (and undefined, modelled as 0) is falsy
OrElse(a, b) == IF a = 0 THEN b ELSE a

\* the Descender of a standard font, in 1/1000 of the font size
FontDescender(name) == IF name = "Courier" THEN -157 ELSE -207

\* font.heightAtSize(size) - font.heightAtSize(size, { descender: false })
BaselineOffset(fontName, size) ==
    RMul(Rat(-FontDescender(fontName), 1000), size)

\* const ratio = width / canvasWidth
Ratio(page, width) == Rat(page.width, width)

\* const size = (o.fontSize || 16) * ratio
FontSizeUnscaled(o, ratio) == RInt(OrElse(o.fontSize, DefaultFontSize))
FontSize(o, ratio) == RMul(RInt(OrElse(o.fontSize, DefaultFontSize)), ratio)

\* lines 527-532
Alignment(o) ==
    IF o.textAlign = "right" THEN "Right"
    ELSE IF o.textAlign = "center" THEN "Center" ELSE "Left"

\* the PDF-space geometry of a text element (lines 502-545): font size,
\* x, y and the bounds given to layoutMultilineText
Geometry(page, width, o, fontName) ==
    LET ratio  == Ratio(page, width)
        size   == FontSize(o, ratio)
        offset == BaselineOffset(fontName, size)
    IN  [size   |-> size,
         x      |-> RAdd(RMul(RInt(o.left), ratio), RInt(NudgeX)),
         y      |-> RAdd(RSub(RSub(RInt(page.height),
                                   RMul(RInt(o.top), ratio)),
                              RMul(RInt(o.height), ratio)),
                         offset),
         width  |-> RMul(RInt(OrElse(o.width, DefaultBoxSize)), ratio),
         height |-> RMul(RInt(OrElse(o.height, DefaultBoxSize)), ratio),
         alignment |-> Alignment(o)]

\* One iteration of the loop of renderPage over canvasData.objects.
\* st = [doc, cache]; a drawn line records the text given to layout, the
\* font handle it is drawn with, the overlay element it comes from and its
\* PDF-space geometry.
DrawObject(st, obj, k, row, width) ==
    IF obj.type = "text"
    THEN LET g == GetFont(obj.fontFamily, st.doc, st.cache) IN
         [doc   |-> [g.doc EXCEPT !.drawn =
                        Append(@, [text |-> LayoutText(row, obj.index),
                                   font |-> g.font, obj |-> k,
                                   geom |-> Geometry(st.doc.size, width, obj,
                                                     g.font.name)])],
          cache |-> g.cache]
    ELSE st

RECURSIVE DrawObjects(_, _, _, _, _)
DrawObjects(st, objects, k, row, width) ==
    IF k > Len(objects)
    THEN st
    ELSE DrawObjects(DrawObject(st, objects[k], k, row, width), objects,
                     k + 1, row, width)

\* renderPage without the guard of lines 498-500
RenderPageUnguarded(row, doc, cache, cd, width) ==
    DrawObjects([doc |-> doc, cache |-> cache], cd.objects, 1, row, width)

\* renderPage(row, page, pdfDoc, cachedFonts, canvasData, canvasWidth);
\* cd = [present, objects], width = 0 stands for 0 or undefined
RenderPage(row, doc, cache, cd, width) ==
    IF ~cd.present \/ width = 0
    THEN [doc |-> doc, cache |-> cache]
    ELSE DrawObjects([doc |-> doc, cache |-> cache], cd.objects, 1, row,
                     width)

----------------------------------------------------------------------------
(* Strings of renderPdf: the name of a split-mode output file *)

\* `${n}` for a natural number
RECURSIVE DecimalString(_)
DecimalString(n) ==
    IF n < 10 THEN <<Digits[n + 1]>>
    ELSE DecimalString(n \div 10) \o <<Digits[(n % 10) + 1]>>

\* String.prototype.split('.')
RECURSIVE SplitDot(_)
SplitDot(s) ==
    IF \A k \in 1..Len(s) : s[k] # "."
    THEN <<s>>
    ELSE LET d == CHOOSE k \in 1..Len(s) :
                     s[k] = "." /\ \A j \in 1..(k - 1) : s[j] # "."
         IN  <<SubSeq(s, 1, d - 1)>> \o SplitDot(SubSeq(s, d + 1, Len(s)))

\* Array.prototype.join('.')
RECURSIVE JoinDot(_)
JoinDot(parts) ==
    IF parts = << >> THEN << >>
    ELSE IF Len(parts) = 1 THEN parts[1]
    ELSE parts[1] \o <<".">> \o JoinDot(Tail(parts))

\* outputName for the row with loop counter n (lines 616-620)
OutputName(out, n) ==
    LET outputs  == SplitDot(out)
        baseName == JoinDot(SubSeq(outputs, 1, Len(outputs) - 1))
        fileEx   == outputs[Len(outputs)]
    IN  baseName \o <<"-">> \o DecimalString(n + 1) \o <<".">> \o fileEx

----------------------------------------------------------------------------
(* renderPdf: the Document Assembler *)

\* PDFDocument.load(pdfBuff): a new document instance parsed from the
\* template bytes; id tells the instances apart, applied lists the rows
\* (1-based) whose data has been put into this instance.
LoadDocument(template, id) ==
    [id |-> id, numPages |-> template.numPages, fields |-> template.fields,
     size |-> template.size,
     drawn |-> << >>, fonts |-> {}, applied |-> << >>]

\* the page of newDoc copied from the saved and reloaded working document
CopiedPage(doc, index) ==
    [page |-> index, applied |-> doc.applied, fields |-> doc.fields,
     drawn |-> doc.drawn]

\* the page pdf-lib adds when a document without pages is saved
DefaultPage == [page |-> -1, applied |-> << >>, fields |-> << >>,
                drawn |-> << >>]

\* newDoc.save(): the pages written to the file
SaveDocument(doc) == IF doc = << >> THEN <<DefaultPage>> ELSE doc

\* a writeFile that replaces the whole output directory
WriteFileAlone(disk, name, pages) == [n \in {name} |-> pages]

\* writeFile(name, bytes) on the disk
WriteFile(disk, name, pages) ==
    [n \in DOMAIN disk \cup {name} |-> IF n = name THEN pages ELSE disk[n]]

\* lines 588-591: the template is read and parsed; newDoc and the font
\* cache start empty
LoadTemplate ==
    /\ pc = "start"
    /\ pdfFile.readable
    /\ pdfDoc' = LoadDocument(pdfFile, loads + 1)
    /\ loads' = loads + 1
    /\ newDoc' = << >>
    /\ cachedFonts' = << >>
    /\ pc' = "read"
    /\ UNCHANGED <<i, rows, files, writes, result, argVars, callVars>>

\* readFile or PDFDocument.load rejects: renderPdf rejects
LoadTemplateFail ==
    /\ pc = "start"
    /\ ~pdfFile.readable
    /\ pc' = "failed"
    /\ UNCHANGED <<i, rows, pdfDoc, newDoc, cachedFonts, loads, files,
                   writes, result, argVars, callVars>>

AfterRow(n, rs) == IF n < Len(rs) THEN "form" ELSE "finish"

\* line 593, and the first test of the loop condition
ReadRows ==
    /\ pc = "read"
    /\ excelFile.readable
    /\ rows' = ReadFirstSheet(excelFile, rowsLimit)
    /\ i' = 0
    /\ pc' = AfterRow(0, rows')
    /\ UNCHANGED <<pdfDoc, newDoc, cachedFonts, loads, files, writes,
                   result, argVars, callVars>>

\* XLSX.readFile throws: renderPdf rejects
ReadRowsFailAfterCreate ==
    /\ pc = "read"
    /\ ~excelFile.readable
    /\ files' = [n \in DOMAIN files \cup {output} |-> <<DefaultPage>>]
    /\ writes' = Append(writes, output)
    /\ pc' = "failed"
    /\ UNCHANGED <<i, rows, pdfDoc, newDoc, cachedFonts, loads, result,
                   argVars, callVars>>
ReadRowsFail ==
    /\ pc = "read"
    /\ ~excelFile.readable
    /\ pc' = "failed"
    /\ UNCHANGED <<i, rows, pdfDoc, newDoc, cachedFonts, loads, files,
                   writes, result, argVars, callVars>>

\* lines 596-597: renderForm on the working document's form, then getPage
PopulateForm ==
    /\ pc = "form"
    /\ LET r == RenderForm(rows[i + 1], formData,
                           [present |-> TRUE, fields |-> pdfDoc.fields])
       IN  /\ pdfDoc' = [pdfDoc EXCEPT !.fields = r.fields,
                                       !.applied = Append(@, i + 1)]
           /\ pc' = IF r.threw \/ pageIndex >= pdfDoc.numPages
                    THEN "failed" ELSE "overlay"
    /\ UNCHANGED <<i, rows, newDoc, cachedFonts, loads, files, writes,
                   result, argVars, callVars>>

\* lines 598-605: renderPage on the target page
DrawOverlay ==
    /\ pc = "overlay"
    /\ LET r == RenderPage(rows[i + 1], pdfDoc, cachedFonts, canvasData,
                           canvasWidth)
       IN  /\ pdfDoc' = r.doc
           /\ cachedFonts' = r.cache
    /\ pc' = "extract"
    /\ UNCHANGED <<i, rows, newDoc, loads, files, writes, result, argVars,
                   callVars>>

\* lines 607-612: save, reload, copy the target page, add it to newDoc
ExtractPage ==
    /\ pc = "extract"
    /\ newDoc' = Append(newDoc, CopiedPage(pdfDoc, pageIndex))
    /\ pc' = "flush"
    /\ UNCHANGED <<i, rows, pdfDoc, cachedFonts, loads, files, writes,
                   result, argVars, callVars>>

\* line 614, combinePdf true: nothing is written or reset
Accumulate ==
    /\ pc = "flush"
    /\ combinePdf
    /\ pc' = "reload"
    /\ UNCHANGED <<i, rows, pdfDoc, newDoc, cachedFonts, loads, files,
                   writes, result, argVars, callVars>>

\* the resets after the split-mode write (lines 624-626)
ResetKeepingPages(doc) == doc
ResetNewDoc(doc) == << >>
ResetFonts(cache) == << >>

\* lines 614-627, combinePdf false: the accumulated document is written
\* under the row's name, then newDoc and the font cache are reset
FlushSplit ==
    /\ pc = "flush"
    /\ ~combinePdf
    /\ files' = WriteFile(files, OutputName(output, i), SaveDocument(newDoc))
    /\ writes' = Append(writes, OutputName(output, i))
    /\ newDoc' = ResetNewDoc(newDoc)
    /\ cachedFonts' = ResetFonts(cachedFonts)
    /\ pc' = "reload"
    /\ UNCHANGED <<i, rows, pdfDoc, loads, result, argVars, callVars>>

\* writeFile rejects (line 622): renderPdf rejects
FlushSplitFail ==
    /\ pc = "flush"
    /\ ~combinePdf
    /\ pc' = "failed"
    /\ UNCHANGED <<i, rows, pdfDoc, newDoc, cachedFonts, loads, files,
                   writes, result, argVars, callVars>>

\* the end of an iteration without the reload of lines 629-630
ReloadTemplateKeepingDocument ==
    /\ pc = "reload"
    /\ i' = i + 1
    /\ pc' = AfterRow(i + 1, rows)
    /\ UNCHANGED <<rows, pdfDoc, loads, newDoc, cachedFonts, files, writes,
                   result, argVars, callVars>>

\* lines 629-630 and the loop's i += 1 and condition
ReloadTemplate ==
    /\ pc = "reload"
    /\ pdfDoc' = LoadDocument(pdfFile, loads + 1)
    /\ loads' = loads + 1
    /\ i' = i + 1
    /\ pc' = AfterRow(i + 1, rows)
    /\ UNCHANGED <<rows, newDoc, cachedFonts, files, writes, result,
                   argVars, callVars>>

\* the name the combined document is written to (line 635)
CombinedNameOfFirstRow(out) == OutputName(out, 0)
CombinedName(out) == out

\* lines 633-637: the combined document is written to output
WriteCombined ==
    /\ pc = "finish"
    /\ combinePdf
    /\ files' = WriteFile(files, CombinedName(output), SaveDocument(newDoc))
    /\ writes' = Append(writes, CombinedName(output))
    /\ result' = 1
    /\ pc' = "done"
    /\ UNCHANGED <<i, rows, pdfDoc, newDoc, cachedFonts, loads, argVars,
                   callVars>>

\* writeFile rejects (line 635): renderPdf rejects
WriteCombinedFail ==
    /\ pc = "finish"
    /\ combinePdf
    /\ pc' = "failed"
    /\ UNCHANGED <<i, rows, pdfDoc, newDoc, cachedFonts, loads, files,
                   writes, result, argVars, callVars>>

\* line 639
ReturnSplit ==
    /\ pc = "finish"
    /\ ~combinePdf
    /\ result' = Len(rows)
    /\ pc' = "done"
    /\ UNCHANGED <<i, rows, pdfDoc, newDoc, cachedFonts, loads, files,
                   writes, argVars, callVars>>


----------------------------------------------------------------------------
(* Runs of renderPdf over bounded arguments and files *)

S_out_pdf == <<"a", "/", "b", ".", "p", "d", "f">>
S_out_bare == <<"o", "u", "t">>
Outputs == {S_out_pdf, S_out_bare}

\* the size of the template's pages, in points
PageSize == [width |-> 600, height |-> 800]

UnreadableFile ==
    [readable |-> FALSE, numPages |-> 0, fields |-> << >>,
     size |-> PageSize]
Templates ==
    {UnreadableFile} \cup
    {[readable |-> TRUE, numPages |-> n, fields |-> FormBlank,
      size |-> PageSize] : n \in 1..2}

UnreadableWorkbook == [EmptyWorkbook EXCEPT !.readable = FALSE]
DataWorkbooks ==
    {UnreadableWorkbook, EmptyWorkbook,
     Workbook([sr |-> 0, sc |-> 0, er |-> 1, ec |-> 0], {}),
     Workbook([sr |-> 0, sc |-> 0, er |-> MaxSheetRow, ec |-> MaxSheetCol],
              {<<2, MaxSheetCol>>})}

\* a fabric Textbox of the overlay: authoring-space geometry (0 stands for
\* 0 or undefined), font and the column it takes its text from
Textbox(index, fontFamily, left, top, width, height, fontSize, textAlign) ==
    [type |-> "text", index |-> index, fontFamily |-> fontFamily,
     left |-> left, top |-> top, width |-> width, height |-> height,
     fontSize |-> fontSize, textAlign |-> textAlign]
TextObject(index, fontFamily) ==
    Textbox(index, fontFamily, 10, 25, 120, 30, 12, "left")
QrObject == [Textbox(0, "", 10, 25, 30, 30, 0, "left") EXCEPT
                !.type = "qrcode"]

\* an index past every column of the workbooks above
NoSuchColumn == MaxSheetCol + 4

AbsentCanvas == [present |-> FALSE, objects |-> << >>]
Canvases ==
    {AbsentCanvas,
     [present |-> TRUE,
      objects |-> <<TextObject(0, ""), QrObject,
                    TextObject(NoSuchColumn, "Courier"),
                    TextObject(MaxSheetCol, "")>>]}
CanvasWidths == {0, 800}

RunFormMaps ==
    {AbsentFormData,
     [present |-> TRUE, keys |-> <<"Ghost", "Name", "Agree", "Color">>,
      idx |-> [Ghost |-> 0, Name |-> 0, Agree |-> NoSuchColumn,
               Color |-> -1]]}

NoCall == call = [fn |-> "renderPdf"] /\ ret = << >> /\ done = FALSE

Init ==
    /\ output \in Outputs
    /\ pdfFile \in Templates
    /\ pageIndex \in 0..1
    /\ excelFile \in DataWorkbooks
    /\ rowsLimit \in 0..MaxRowsLimit
    /\ combinePdf \in BOOLEAN
    /\ canvasData \in Canvases
    /\ canvasWidth \in CanvasWidths
    /\ formData \in RunFormMaps
    /\ pc = "start" /\ i = 0 /\ rows = << >>
    /\ pdfDoc = LoadDocument(UnreadableFile, 0)
    /\ newDoc = << >> /\ cachedFonts = << >> /\ loads = 0
    /\ files = << >> /\ writes = << >> /\ result = -1
    /\ NoCall

Next ==
    \/ LoadTemplate
    \/ LoadTemplateFail
    \/ ReadRows
    \/ ReadRowsFail
    \/ PopulateForm
    \/ DrawOverlay
    \/ ExtractPage
    \/ Accumulate
    \/ FlushSplit
    \/ FlushSplitFail
    \/ ReloadTemplate
    \/ WriteCombined
    \/ WriteCombinedFail
    \/ ReturnSplit

Spec == Init /\ [][Next]_vars


----------------------------------------------------------------------------
(* Direct evaluations of the coordinate translation of renderPage, over   *)
(* bounded page sizes, canvas widths and text elements                     *)

GeomPages == {PageSize, [width |-> 595, height |-> 842]}
GeomCanvasWidths == {7, 300, 400, 800}
GeomTextboxes ==
    {Textbox(0, f, l, t, w, h, fs, a) :
        f \in {"", "Courier"}, l \in {0, 10}, t \in {0, 25}, w \in {0, 120},
        h \in {0, 30}, fs \in {0, 12, 16}, a \in {"left", "center"}}

GeomInit ==
    /\ NoRun
    /\ \E p \in GeomPages, w \in GeomCanvasWidths, o \in GeomTextboxes :
          call = [fn |-> "renderPage", page |-> p, canvasWidth |-> w,
                  o |-> o]
    /\ ret = << >>
    /\ done = FALSE

\* the font name getFont resolves o.fontFamily to
FontKey(o) == IF o.fontFamily = "" THEN Helvetica ELSE o.fontFamily

CallGeometry ==
    /\ ~done
    /\ call.fn = "renderPage"
    /\ ret' = Geometry(call.page, call.canvasWidth, call.o, FontKey(call.o))
    /\ done' = TRUE
    /\ UNCHANGED <<call, argVars, runVars>>

GeomNext == CallGeometry

GeomSpec == GeomInit /\ [][GeomNext]_vars

----------------------------------------------------------------------------
(* Properties of renderForm (checked under FormSpec) *)

\* the call of renderForm has returned, with a form and a mapping present
Populated ==
    /\ done /\ call.fn = "renderForm"
    /\ call.pdfForm.present /\ call.formData.present

MappedKeys == {call.formData.keys[k] : k \in 1..Len(call.formData.keys)}
MappedValue(key) == RowGet(call.row, call.formData.idx[key])
HasValue(key) ==
    /\ call.formData.idx[key] # -1
    /\ MappedValue(key).t \notin {"undefined", "null"}
KindOf(key) ==
    IF key \in DOMAIN call.pdfForm.fields
    THEN call.pdfForm.fields[key].kind
    ELSE "none"

\* the mapping without the keys in Drop
Without(fd, Drop) ==
    [present |-> fd.present,
     keys    |-> SelectSeq(fd.keys, LAMBDA k : k \notin Drop),
     idx     |-> [k \in (DOMAIN fd.idx) \ Drop |-> fd.idx[k]]]

\* C5: after populate, a mapped CheckBox whose row value is present is
\* checked if and only if the value, coerced to a string, equals "true"
\* case-insensitively ("TRUE", "true", "True" check it; "", "false", "no"
\* and every other string leave it unchecked).
C5_CheckBoxIffTrue ==
    Populated =>
        \A key \in MappedKeys :
            (KindOf(key) = "CheckBox" /\ HasValue(key)) =>
                LET v == JsString(MappedValue(key)) IN
                /\ ret.fields[key].checked <=> ToLowerCase(v) = S_true
                /\ v \in {S_true, S_TRUE, S_True} => ret.fields[key].checked
                /\ v \in {S_empty, S_false, S_no} => ~ret.fields[key].checked
                /\ ~ret.threw

\* C5 witness: "True" checks a box that was unchecked, and "no" unchecks a
\* box that was checked.
C5_Witness ==
    /\ Populated
    /\ "Agree" \in MappedKeys /\ HasValue("Agree")
    /\ \/ /\ JsString(MappedValue("Agree")) = S_True
          /\ ~call.pdfForm.fields["Agree"].checked
          /\ ret.fields["Agree"].checked
       \/ /\ JsString(MappedValue("Agree")) = S_no
          /\ call.pdfForm.fields["Agree"].checked
          /\ ~ret.fields["Agree"].checked

ChoiceKinds == {"RadioGroup", "OptionList", "Dropdown"}

\* C6: for a mapped RadioGroup, OptionList or Dropdown whose row value is
\* present, populate selects the value when it is one of the field's
\* options, and otherwise leaves the field as it was; no error is raised.
C6_SelectOnlyMembers ==
    Populated =>
        \A key \in MappedKeys :
            (KindOf(key) \in ChoiceKinds /\ HasValue(key)) =>
                LET v == JsString(MappedValue(key)) IN
                /\ v \in call.pdfForm.fields[key].options
                      => ret.fields[key].selected = {v}
                /\ v \notin call.pdfForm.fields[key].options
                      => ret.fields[key] = call.pdfForm.fields[key]
                /\ ~ret.threw

\* C6 witness: a value outside the options meets a field with an earlier
\* selection, and a member value replaces an earlier selection.
C6_Witness ==
    /\ Populated
    /\ "Color" \in MappedKeys /\ HasValue("Color")
    /\ call.pdfForm.fields["Color"].selected = {S_red}
    /\ JsString(MappedValue("Color")) = S_no
    /\ ret.fields["Color"].selected = {S_red}
    /\ "Tags" \in MappedKeys /\ HasValue("Tags")
    /\ JsString(MappedValue("Tags")) = S_blue
    /\ ret.fields["Tags"].selected = {S_blue}

SkippedKeys == {key \in MappedKeys : ~HasValue(key)}

\* C7: populate changes nothing when the mapping or the form is absent; a
\* mapped field whose index is -1 or whose row value is missing is left
\* unchanged, and the other mapped fields are populated exactly as they are
\* without the skipped entries.
C7_SkipUnmapped ==
    (done /\ call.fn = "renderForm") =>
        /\ (~call.pdfForm.present \/ ~call.formData.present)
              => (ret.fields = call.pdfForm.fields /\ ~ret.threw)
        /\ Populated =>
              /\ \A key \in SkippedKeys :
                    key \in DOMAIN ret.fields
                        => ret.fields[key] = call.pdfForm.fields[key]
              /\ ret = RenderForm(call.row,
                                  Without(call.formData, SkippedKeys),
                                  call.pdfForm)

\* C7 witness: one entry is skipped (index out of the row's range) while
\* another entry of the same mapping sets its text field.
C7_Witness ==
    /\ Populated
    /\ "Agree" \in MappedKeys /\ call.formData.idx["Agree"] = 2
    /\ call.pdfForm.fields["Agree"].checked
    /\ "Name" \in MappedKeys /\ call.formData.idx["Name"] = 1
    /\ JsString(MappedValue("Name")) = S_Alice
    /\ ret.fields["Name"].text = S_Alice
    /\ ret.fields["Agree"].checked

\* mapped names that are no field of the template, or a field of a kind
\* getFieldType does not classify
SoftKeys == {key \in MappedKeys : KindOf(key) \notin SupportedField}

\* C8: a mapping entry naming a nonexistent or unclassifiable field is
\* skipped silently: populate raises no error, an unclassifiable field is
\* left as it was, and every other mapped field is populated exactly as it
\* is without that entry.
C8_SoftSkip ==
    (Populated /\ SoftKeys # {}) =>
        /\ ~ret.threw
        /\ DOMAIN ret.fields = DOMAIN call.pdfForm.fields
        /\ \A key \in SoftKeys :
              key \in DOMAIN ret.fields
                  => ret.fields[key] = call.pdfForm.fields[key]
        /\ ret = RenderForm(call.row, Without(call.formData, SoftKeys),
                            call.pdfForm)

\* C8 witness: "Ghost" (no such field) comes first in the mapping with a
\* present value, and the text field after it is still set.
C8_Witness ==
    /\ Populated
    /\ call.formData.keys = <<"Ghost", "Name">>
    /\ HasValue("Ghost") /\ HasValue("Name")
    /\ call.formData.idx["Name"] = 1
    /\ call.pdfForm.fields["Name"].text = S_Bob
    /\ JsString(MappedValue("Name")) = S_Alice
    /\ ret.fields["Name"].text = S_Alice
    /\ ~ret.threw


----------------------------------------------------------------------------
(* Properties of readFirstSheet (checked under SheetSpec) *)

SheetRead == done /\ call.fn = "readFirstSheet"

\* C9: readFirstSheet returns at most rowsLimit rows; the k-th returned row
\* is the k-th physical row after the header (the first row of the declared
\* range); with the range starting at row 0 no row within the limit is left
\* out; and every returned Row has one entry per column of the declared
\* range, keyed 0.. from the range's first column, holding the cell's value
\* or, for a cell absent from the cell map, the empty string.
C9_ReadRows ==
    SheetRead =>
        LET ref == call.wb.ref IN
        /\ Len(ret) <= call.rowsLimit
        /\ ~call.wb.hasRef => ret = << >>
        /\ call.wb.hasRef =>
              /\ ref.sr = 0 => Len(ret) = Min(call.rowsLimit, ref.er)
              /\ \A k \in 1..Len(ret) :
                    /\ ref.sr + k <= ref.er
                    /\ DOMAIN ret[k] = 0..(ref.ec - ref.sc)
                    /\ \A c \in ref.sc..ref.ec :
                          ret[k][c - ref.sc] =
                              IF <<ref.sr + k, c>> \in DOMAIN call.wb.cells
                              THEN CellText(ref.sr + k, c)
                              ELSE Str(S_empty)

\* C9 witness: a sheet with more data rows than the limit and a missing
\* cell in a returned row: the limit cuts the rows and the hole reads ''.
C9_Witness ==
    /\ SheetRead
    /\ call.wb.hasRef
    /\ call.rowsLimit = 2 /\ call.wb.ref.er - call.wb.ref.sr > 2
    /\ Len(ret) = 2
    /\ call.wb.ref.sc < call.wb.ref.ec
    /\ <<call.wb.ref.sr + 2, call.wb.ref.ec>> \notin DOMAIN call.wb.cells
    /\ ret[2][call.wb.ref.ec - call.wb.ref.sc] = Str(S_empty)


----------------------------------------------------------------------------
(* Properties of renderPdf (checked under Spec) *)

\* the form of the template after populate with data row k (1-based)
FormOfRow(k) ==
    RenderForm(rows[k], formData,
               [present |-> TRUE, fields |-> pdfFile.fields]).fields

\* page p is the target page rendered from data row k and nothing else
PageOfRow(p, k) ==
    /\ p.page = pageIndex
    /\ p.applied = <<k>>
    /\ p.fields = FormOfRow(k)
    /\ \A d \in 1..Len(p.drawn) :
          p.drawn[d].text =
              LayoutText(rows[k], canvasData.objects[p.drawn[d].obj].index)
    /\ (canvasData.present /\ canvasWidth # 0) =>
          Len(p.drawn) = Cardinality({o \in 1..Len(canvasData.objects) :
                                        canvasData.objects[o].type = "text"})

\* C1: in combined mode over N >= 1 rows nothing is written before the end;
\* a run that returns has written exactly one file, at the path output,
\* holding exactly N pages, page k being the target page rendered from row
\* k; and it has returned 1.
C1_CombinedOneFile ==
    (combinePdf /\ pc # "idle") =>
        /\ pc # "done" => (writes = << >> /\ result = -1)
        /\ (pc = "done" /\ Len(rows) >= 1) =>
              /\ writes = <<output>>
              /\ DOMAIN files = {output}
              /\ Len(files[output]) = Len(rows)
              /\ \A k \in 1..Len(rows) : PageOfRow(files[output][k], k)
              /\ result = 1

\* C1 witness: a combined run over two rows, with a mapping and an overlay,
\* has returned.
C1_Witness ==
    /\ pc = "done" /\ combinePdf /\ Len(rows) = 2
    /\ formData.present /\ canvasData.present /\ canvasWidth # 0
    /\ Len(files[output]) = 2
    /\ files[output][1].fields # files[output][2].fields

\* C2: in split mode over N >= 1 rows the accumulator holds exactly one
\* page whenever it is flushed; the i-th write creates a new file holding
\* exactly one page, the target page rendered from row i; and a run that
\* returns has written N files and returned N.
C2_SplitOneFilePerRow ==
    (~combinePdf /\ pc # "idle") =>
        /\ pc = "flush" => Len(newDoc) = 1
        /\ Cardinality(DOMAIN files) = Len(writes)
        /\ \A k \in 1..Len(writes) :
              /\ writes[k] \in DOMAIN files
              /\ Len(files[writes[k]]) = 1
              /\ PageOfRow(files[writes[k]][1], k)
        /\ (pc = "done" /\ Len(rows) >= 1) =>
              /\ Len(writes) = Len(rows)
              /\ result = Len(rows)

\* C2 witness: a split run over two rows has returned with two files.
C2_Witness ==
    /\ pc = "done" /\ ~combinePdf /\ Len(rows) = 2
    /\ Cardinality(DOMAIN files) = 2
    /\ result = 2

\* C3: the font cache is scoped to the current working document (it is
\* reset whenever the template is re-parsed), so that, in combined and in
\* split mode, every font handle getFont returns for a line drawn on the
\* working document was embedded into that document instance.
C3_FontCacheScoped ==
    pc \notin {"idle", "start"} =>
        \A d \in 1..Len(pdfDoc.drawn) :
            pdfDoc.drawn[d].font.doc = pdfDoc.id

\* C4: a text element whose column index has no value in the row is laid
\* out and drawn as the empty string.
C4_EmptySubstitution ==
    (pc \notin {"idle", "start"} /\ pdfDoc.applied # << >>) =>
        \A d \in 1..Len(pdfDoc.drawn) :
            LET line == pdfDoc.drawn[d]
                obj  == canvasData.objects[line.obj]
            IN  RowGet(rows[pdfDoc.applied[1]], obj.index).t = "undefined"
                    => line.text = S_empty

\* C10: nothing is written unless the template has been loaded and the
\* rows have been read; a run whose template or workbook cannot be read
\* fails without having written or returned anything.
C10_SourcesBeforeOutput ==
    pc # "idle" =>
        /\ writes # << >> =>
              /\ pdfFile.readable /\ excelFile.readable
              /\ loads >= 1
              /\ pc \notin {"start", "read"}
        /\ (~pdfFile.readable \/ ~excelFile.readable) =>
              /\ pc \in {"start", "read", "failed"}
              /\ writes = << >> /\ DOMAIN files = {}
              /\ result = -1

\* C10 witness: the template loaded, the workbook could not be read, and
\* the run has failed with nothing on disk.
C10_Witness ==
    /\ pc = "failed"
    /\ pdfFile.readable /\ ~excelFile.readable
    /\ loads = 1
    /\ writes = << >> /\ DOMAIN files = {}


----------------------------------------------------------------------------
(* Properties of the coordinate translation (checked under GeomSpec) *)

\* the element with its authoring geometry and font size doubled
Doubled(o) ==
    [o EXCEPT !.left = 2 * @, !.top = 2 * @, !.width = 2 * @,
              !.height = 2 * @, !.fontSize = 2 * @]

Translated == done /\ call.fn = "renderPage"

\* the translation of the doubled element on the doubled canvas
DoubledGeometry ==
    Geometry(call.page, 2 * call.canvasWidth, Doubled(call.o),
             FontKey(call.o))

\* C11 as stated: for every page size and every text element, doubling the
\* canvas width and the element's left, top, width, height and fontSize
\* gives the same PDF-space x, y, box width, box height and font size.
C11_ScaleInvariantAll ==
    Translated => ret = DoubledGeometry

\* C11 as amended: the same, for every text element whose width, height
\* and fontSize are present and nonzero (so that none of the fixed
\* fallbacks 100, 100 and 16 is used).
C11_ScaleInvariant ==
    (Translated /\ call.o.width # 0 /\ call.o.height # 0
                /\ call.o.fontSize # 0)
        => ret = DoubledGeometry

\* C11 witness: a full element on a canvas giving a ratio that is no
\* integer; its translation moved and scaled it, and the doubled input
\* gives the same result.
C11_Witness ==
    /\ Translated
    /\ call.canvasWidth = 7 /\ call.page.width = 595
    /\ call.o.left = 10 /\ call.o.top = 25 /\ call.o.width = 120
    /\ call.o.height = 30 /\ call.o.fontSize = 12
    /\ ret.x = Rat(851, 1) /\ ret.size = Rat(1020, 1)
    /\ ret = DoubledGeometry


----------------------------------------------------------------------------
(* Further properties of renderPdf (checked under Spec) *)

NoOverlay == ~canvasData.present \/ canvasWidth = 0

\* every page written to disk so far
WrittenPages ==
    UNION {{files[n][k] : k \in 1..Len(files[n])} : n \in DOMAIN files}

\* C12: when the canvas width is zero or undefined, or no overlay is given,
\* the overlay step does nothing for any row: no font is embedded or
\* cached and no line is drawn (so no ratio is computed), on the working
\* document and on every page kept or written; the form is still populated
\* for each row, its page is still extracted, and a run that returns has
\* still put one page per row on disk.
C12_NoOverlaySkipsDrawing ==
    (pc # "idle" /\ NoOverlay) =>
        /\ pdfDoc.drawn = << >> /\ pdfDoc.fonts = {}
        /\ DOMAIN cachedFonts = {}
        /\ \A k \in 1..Len(newDoc) : newDoc[k].drawn = << >>
        /\ \A p \in WrittenPages : p.drawn = << >>
        /\ pc \in {"overlay", "extract", "flush", "reload"} =>
              /\ pdfDoc.applied = <<i + 1>>
              /\ pdfDoc.fields = FormOfRow(i + 1)
        /\ pc \in {"flush", "reload"} /\ combinePdf =>
              /\ Len(newDoc) = i + 1
              /\ newDoc[i + 1].fields = FormOfRow(i + 1)
        /\ (pc = "done" /\ Len(rows) >= 1) =>
              /\ Cardinality(WrittenPages) >= 1
              /\ \A k \in 1..Len(rows) :
                    \E p \in WrittenPages :
                        p.applied = <<k>> /\ p.fields = FormOfRow(k)
              /\ combinePdf => Len(files[output]) = Len(rows)
              /\ ~combinePdf => Len(writes) = Len(rows)

\* C12 witness: an overlay with text elements is given but the canvas
\* width is 0; a run over two rows with a field mapping has returned, and
\* the template's text field was filled on a written page.
C12_Witness ==
    /\ pc = "done" /\ Len(rows) = 2
    /\ canvasData.present /\ canvasWidth = 0
    /\ formData.present
    /\ \E p \in WrittenPages :
          p.applied = <<2>> /\ p.fields["Name"].text # S_empty

\* the position of the last "." of s after its last "/", or 0: where the
\* extension of the path s starts
ExtensionDot(s) ==
    LET dots == {k \in 1..Len(s) :
                    s[k] = "." /\ \A j \in k..Len(s) : s[j] # "/"}
    IN  IF dots = {} THEN 0
        ELSE CHOOSE k \in dots : \A j \in dots : j <= k

\* the path without its extension, and its extension (without the dot)
PathBase(s) ==
    IF ExtensionDot(s) = 0 THEN s ELSE SubSeq(s, 1, ExtensionDot(s) - 1)
PathExtension(s) ==
    IF ExtensionDot(s) = 0 THEN << >>
    ELSE SubSeq(s, ExtensionDot(s) + 1, Len(s))

\* C13: in split mode the file written for row i (1-based) is named
\* baseName-i.ext, baseName being the output path without its extension
\* and ext its extension ("a/b.pdf" gives "a/b-i.pdf").
C13_SplitNames ==
    (pc # "idle" /\ ~combinePdf) =>
        \A k \in 1..Len(writes) :
            writes[k] = PathBase(output) \o <<"-">> \o DecimalString(k)
                            \o <<".">> \o PathExtension(output)


InRow == pc \in {"form", "overlay", "extract", "flush", "reload"}

\* the working document as parsed from the template: no row's data in it
FreshFromTemplate ==
    /\ pdfDoc.fields = pdfFile.fields
    /\ pdfDoc.numPages = pdfFile.numPages
    /\ pdfDoc.drawn = << >>
    /\ pdfDoc.fonts = {}
    /\ pdfDoc.applied = << >>

\* the working document carries the data of the current row only
C14_OnlyCurrentRow ==
    /\ InRow => i < Len(rows) /\ pdfDoc.id = i + 1
    /\ pc = "form" => FreshFromTemplate
    /\ pc \in {"overlay", "extract", "flush", "reload"} =>
          /\ pdfDoc.applied = <<i + 1>>
          /\ pdfDoc.fields = FormOfRow(i + 1)
          /\ \A k \in 1..Len(pdfDoc.drawn) :
                pdfDoc.drawn[k].text
                    = LayoutText(rows[i + 1],
                                 canvasData.objects[pdfDoc.drawn[k].obj].index)
    /\ pc = "overlay" => pdfDoc.drawn = << >>

\* the order of the steps of one row, and of the rows
C14_NextStep ==
    /\ pc = "form"    => pc' \in {"overlay", "failed"} /\ i' = i
    /\ pc = "overlay" => pc' = "extract" /\ i' = i
    /\ pc = "extract" => pc' = "flush" /\ i' = i
    /\ pc = "flush"   => pc' \in {"reload", "failed"} /\ i' = i
    /\ pc = "reload"  => /\ i' = i + 1
                         /\ pc' = IF i' < Len(rows) THEN "form" ELSE "finish"
    /\ pc' = "form"   => pc \in {"read", "reload"}
    /\ pdfFile' = pdfFile
    /\ InRow => rows' = rows

\* C14: each row goes through PopulateForm, DrawOverlay, ExtractPage,
\* AccumulateOrFlush and ReloadTemplate in this order, one row after the
\* other; the template is never modified, and the working document at the
\* start of every row is a new parse of it, holding no form value and no
\* text of an earlier row.
C14_RowsInSequenceOnFreshTemplate ==
    []C14_OnlyCurrentRow /\ [][C14_NextStep]_vars

\* C14 witness: the second row starts on a fresh working document while
\* the page kept from the first row carries that row's form values and text.
C14_Witness ==
    /\ pc = "form" /\ i = 1
    /\ FreshFromTemplate
    /\ Len(newDoc) = 1
    /\ newDoc[1].fields # pdfFile.fields
    /\ newDoc[1].drawn # << >>

\* the files of the rows 1..n, as the split mode names them
SplitFilesOfRows(n) == {OutputName(output, k - 1) : k \in 1..n}

\* in split mode the disk holds the files of the rows already flushed
C15_FilesOfFinishedRows ==
    (pc # "idle" /\ ~combinePdf) =>
        /\ DOMAIN files = SplitFilesOfRows(Len(writes))
        /\ \A k \in 1..Len(writes) :
              /\ writes[k] = OutputName(output, k - 1)
              /\ Len(files[writes[k]]) = 1
              /\ files[writes[k]][1].applied = <<k>>
        /\ pc \in {"form", "overlay", "extract", "flush"} => Len(writes) = i
        /\ pc = "reload" => Len(writes) = i + 1
        /\ pc = "failed" => Len(writes) = i

\* a file on disk stays, with its contents
C15_FilesKept ==
    ~combinePdf =>
        \A n \in DOMAIN files : n \in DOMAIN files' /\ files'[n] = files[n]

=============================================================================
